---- MODULE Spec2Model ----
(***************************************************************************)
(* A model of bot.py: the Reddit -> Telegram image pipeline.               *)
(*                                                                         *)
(* The store file posted_images.json, the clock, the source client and     *)
(* the runs of post_reddit_images are the state.  A run is cut into steps  *)
(* at the points where the code talks to the outside world: the load and   *)
(* reset of the store, one fetch per subreddit, the GET on a candidate     *)
(* URL and the completion of the awaited bot.send_photo.                   *)
(*                                                                         *)
(* A URL is a name with its characters given by Chars, so that            *)
(* str.endswith is computed and not assumed.  A timestamp is a number of   *)
(* clock units, DayLen of them to a UTC day; a date string "%Y-%m-%d" is   *)
(* the one-element sequence holding the day number and the empty string    *)
(* is the empty sequence.                                                  *)
(***************************************************************************)
EXTENDS Integers, Sequences, FiniteSets, TLC

\* ------------------------------------------------------------------ bounds
MaxNow == 2
MaxListing == 1
NumRuns == 2
MaxLimit == 2

\* ------------------------------------------------------- program constants
DayLen == 2
HTTP_OK == 200
upvote_threshold == 1000
default_limit == 10

Subreddits == <<"EarthPorn", "spaceporn", "Art">>

\* --------------------------------------------------------------------- text
\* The URLs of the model, and the characters of each.
URL_A_JPG == "a.jpg"
URL_B_PNG == "b.png"
URL_C_JPEG == "c.jpeg"
URL_D_GIF == "d.gif"
URL_E_UPPER == "e.JPG"
URL_F_QUERY == "f.jpg?"
URL_G_NODOT == "jpg"

ProbeURLs == {URL_A_JPG, URL_B_PNG, URL_C_JPEG, URL_D_GIF, URL_E_UPPER,
              URL_F_QUERY, URL_G_NODOT}

Chars(u) ==
    CASE u = URL_A_JPG -> <<"a", ".", "j", "p", "g">>
      [] u = URL_B_PNG -> <<"b", ".", "p", "n", "g">>
      [] u = URL_C_JPEG -> <<"c", ".", "j", "p", "e", "g">>
      [] u = URL_D_GIF -> <<"d", ".", "g", "i", "f">>
      [] u = URL_E_UPPER -> <<"e", ".", "J", "P", "G">>
      [] u = URL_F_QUERY -> <<"f", ".", "j", "p", "g", "?">>
      [] u = URL_G_NODOT -> <<"j", "p", "g">>

ImageSuffixes == { <<".", "j", "p", "g">>, <<".", "p", "n", "g">>,
                   <<".", "j", "p", "e", "g">> }

Range(s) == { s[i] : i \in DOMAIN s }

Min(a, b) == IF a <= b THEN a ELSE b

\* str.endswith(suffix)
EndsWith(s, suf) ==
    /\ Len(s) >= Len(suf)
    /\ SubSeq(s, Len(s) - Len(suf) + 1, Len(s)) = suf

\* str.endswith(tuple of suffixes)
EndsWithAny(s, sufs) == \E suf \in sufs : EndsWith(s, suf)

\* -------------------------------------------------------------------- clock
\* datetime.now(UTC).strftime("%Y-%m-%d")
DateStr(t) == << t \div DayLen >>

EmptyStr == << >>

\* datetime.now(UTC).replace(hour=0, minute=0, second=0, microsecond=0).timestamp()
DayStart(t) == (t \div DayLen) * DayLen

\* --------------------------------------------------------------- store file
\* What posted_images.json holds.  kind: "missing" (no such file), "object" (a JSON
\* object with the fields named in `fields`), "nonobject" (valid JSON that is a list,
\* a number, a string or null), "torn" (not valid JSON: an empty file, as open(.., "w")
\* leaves it, or the beginning of a write that was cut off).
NoFile == [kind |-> "missing", fields |-> {}, images |-> << >>, date |-> EmptyStr]

OtherFile(k) == [kind |-> k, fields |-> {}, images |-> << >>, date |-> EmptyStr]

\* json.dump({"images": images, "date": date}, file)
ObjFile(imgs, date) ==
    [kind |-> "object", fields |-> {"images", "date"}, images |-> imgs, date |-> date]

IOResults == {"ok", "ioerror"}

\* What a call of save_posted_images may meet, and the same with the death of the
\* process in the middle of it.
SaveOutcomes == {"ok", "open_error", "write_error"}

CrashOutcomes == SaveOutcomes \cup {"crash"}

\* load_posted_images(): io is what the open/read does this time.  The result says
\* whether an exception left the function and, if none did, the pair returned.
load_posted_images(f, io) ==
    IF f.kind = "missing"
    THEN [raised |-> FALSE, images |-> << >>, date |-> EmptyStr]
    ELSE IF io = "ioerror" \/ f.kind = "torn"
    THEN [raised |-> FALSE, images |-> << >>, date |-> EmptyStr]
    ELSE IF f.kind = "nonobject"
    THEN [raised |-> TRUE, images |-> << >>, date |-> EmptyStr]
    ELSE [raised |-> FALSE,
          images |-> IF "images" \in f.fields THEN f.images ELSE << >>,
          date |-> IF "date" \in f.fields THEN f.date ELSE EmptyStr]

\* save_posted_images(images) at time t: the file afterwards.  "open_error": open()
\* raises IOError, nothing is touched.  "write_error": open(.., "w") has truncated the
\* file and the write or the flush raises IOError.  "crash": the process dies between
\* the truncation and the end of the write.
save_posted_images(f, imgs, t, outcome) ==
    CASE outcome = "ok" -> ObjFile(imgs, DateStr(t))
      [] outcome = "open_error" -> f
      [] OTHER -> OtherFile("torn")

\* A faulty clear_old_images: on a new day it saves the empty list but hands the
\* stored list back (the `return []` is missing).
clear_old_images_keeps(f, t, io, outcome) ==
    LET stored == load_posted_images(f, io)
    IN  IF stored.raised
        THEN [raised |-> TRUE, stored |-> stored, returned |-> << >>, file |-> f,
              save |-> "none"]
        ELSE IF stored.date /= DateStr(t)
        THEN [raised |-> FALSE, stored |-> stored, returned |-> stored.images,
              file |-> save_posted_images(f, << >>, t, outcome),
              save |-> outcome]
        ELSE [raised |-> FALSE, stored |-> stored, returned |-> stored.images,
              file |-> f, save |-> "none"]

\* clear_old_images() at time t.  save is "none" when save_posted_images is not called.
clear_old_images(f, t, io, outcome) ==
    LET stored == load_posted_images(f, io)
        current_date == DateStr(t)
    IN  IF stored.raised
        THEN [raised |-> TRUE, stored |-> stored, returned |-> << >>, file |-> f,
              save |-> "none"]
        ELSE IF stored.date /= current_date
        THEN [raised |-> FALSE, stored |-> stored, returned |-> << >>,
              file |-> save_posted_images(f, << >>, t, outcome),
              save |-> outcome]
        ELSE [raised |-> FALSE, stored |-> stored, returned |-> stored.images,
              file |-> f, save |-> "none"]

\* ------------------------------------------------------------------ fetcher
\* A submission as the source service lists it.
Post(u, sc, cr) == [url |-> u, score |-> sc, created_utc |-> cr]

\* subreddit.hot(limit=limit): at most limit items of the ranking, in its order.
Hot(ranking, limit) == SubSeq(ranking, 1, Min(limit, Len(ranking)))

\* A faulty filter: the score has to exceed the threshold.
Qualifies_strict(post, threshold, t) ==
    /\ post.created_utc >= DayStart(t)
    /\ post.score > threshold
    /\ EndsWithAny(Chars(post.url), ImageSuffixes)

\* The condition of the list comprehension in fetch_images.
Qualifies(post, threshold, t) ==
    /\ post.created_utc >= DayStart(t)
    /\ post.score >= threshold
    /\ EndsWithAny(Chars(post.url), ImageSuffixes)

\* A faulty guard: the listing is asked for whatever the client is.
queries_source_always(rd) == TRUE

\* The guard `if reddit is None: return []` at the head of fetch_images: TRUE when
\* the call goes on to ask the source for a listing.
queries_source(rd) == rd /= "None"

\* The submissions the comprehension keeps, in order.  source.error says that the
\* listing raised; source.hot is the ranking it would yield.
kept_posts(rd, source, threshold, limit, t) ==
    LET Test(post) == Qualifies(post, threshold, t)
    IN  IF ~queries_source(rd) THEN << >>
        ELSE IF source.error THEN << >>
        ELSE SelectSeq(Hot(source.hot, limit), Test)

\* fetch_images(subreddit_name, upvote_threshold, limit) at time t: post.url of each
\* kept submission.
fetch_images(rd, source, threshold, limit, t) ==
    LET posts == kept_posts(rd, source, threshold, limit, t)
    IN  [i \in 1..Len(posts) |-> posts[i].url]

\* -------------------------------------------------------------------- state
VARIABLES
    now,            \* the UTC clock
    reddit,         \* the module-level client: "client", or "None" after a failed setup
    file,           \* posted_images.json
    pc,             \* per run: "idle", "fetch", "get", "send"
    subreddit,      \* per run: index into Subreddits of the outer loop
    images,         \* per run: the list the current fetch returned
    kept,           \* per run: the submissions behind images (not kept by the code)
    img,            \* per run: index into images of the inner loop
    posted_images,  \* per run: the in-memory list
    sent,           \* <<url, date>> of every send_photo that returned
    failed_in_run,  \* per run: the URLs whose GET or send has failed in it so far
    overlap,        \* whether a run has ever been started while another was in flight
    ev              \* the last step taken and what it saw

vars == <<now, reddit, file, pc, subreddit, images, kept, img, posted_images,
          sent, failed_in_run, overlap, ev>>

Runs == 1..NumRuns

\* The submissions a ranking may hold when a run fetches at time t: two that pass
\* every condition of the filter (created on the first instant of the day), one that
\* is too old by one instant and one whose score is one short.
RunPosts(t) ==
    { Post(URL_A_JPG, upvote_threshold, DayStart(t)),
      Post(URL_B_PNG, upvote_threshold, DayStart(t)),
      Post(URL_B_PNG, upvote_threshold - 1, t) }
    \cup { Post(URL_A_JPG, upvote_threshold, cr) : cr \in {DayStart(t) - 1} \cap (0..t) }

SeqsUpTo(S, n) == UNION { [1..k -> S] : k \in 0..n }

RunSources(t) ==
    { [error |-> FALSE, hot |-> h] : h \in SeqsUpTo(RunPosts(t), MaxListing) }
    \cup { [error |-> TRUE, hot |-> << >>] }

InitFiles ==
    { NoFile, OtherFile("torn"), OtherFile("nonobject"), ObjFile(<< >>, DateStr(0)),
      [kind |-> "object", fields |-> {}, images |-> << >>, date |-> EmptyStr] }

Idle == [r \in Runs |-> "idle"]

Init ==
    /\ now = 0
    /\ reddit \in {"client", "None"}
    /\ file \in InitFiles
    /\ pc = Idle
    /\ subreddit = [r \in Runs |-> 0]
    /\ images = [r \in Runs |-> << >>]
    /\ kept = [r \in Runs |-> << >>]
    /\ img = [r \in Runs |-> 0]
    /\ posted_images = [r \in Runs |-> << >>]
    /\ sent = {}
    /\ failed_in_run = [r \in Runs |-> {}]
    /\ overlap = FALSE
    /\ ev = [op |-> "init"]

\* ------------------------------------------------------------- orchestrator
\* A faulty loop: every candidate goes to send_image_to_telegram, in posted or not.
NextImg_unfiltered(imgs, posted, i) == i

\* The first index j >= i of imgs whose URL passes `img not in posted_images`,
\* Len(imgs) + 1 when there is none.
RECURSIVE NextImg(_, _, _)
NextImg(imgs, posted, i) ==
    IF i > Len(imgs) THEN i
    ELSE IF imgs[i] \notin Range(posted) THEN i
    ELSE NextImg(imgs, posted, i + 1)

\* Faulty loops: the run returns after the first subreddit whose list was not empty.
LoopState_returns_early(sub, imgs, kpt, i, posted) ==
    LET j == NextImg(imgs, posted, i)
    IN  IF j <= Len(imgs)
        THEN [pc |-> "get", subreddit |-> sub, images |-> imgs, kept |-> kpt,
              img |-> j, posted_images |-> posted]
        ELSE IF sub < Len(Subreddits) /\ imgs = << >>
        THEN [pc |-> "fetch", subreddit |-> sub + 1, images |-> << >>,
              kept |-> << >>, img |-> 0, posted_images |-> posted]
        ELSE [pc |-> "idle", subreddit |-> 0, images |-> << >>, kept |-> << >>,
              img |-> 0, posted_images |-> << >>]

\* Where the loops of post_reddit_images stand once the candidates before index i
\* of the current subreddit are done: at the GET of the next candidate not in
\* posted, at the fetch of the next subreddit, or at the end of the run.
LoopState(sub, imgs, kpt, i, posted) ==
    LET j == NextImg(imgs, posted, i)
    IN  IF j <= Len(imgs)
        THEN [pc |-> "get", subreddit |-> sub, images |-> imgs, kept |-> kpt,
              img |-> j, posted_images |-> posted]
        ELSE IF sub < Len(Subreddits)
        THEN [pc |-> "fetch", subreddit |-> sub + 1, images |-> << >>,
              kept |-> << >>, img |-> 0, posted_images |-> posted]
        ELSE [pc |-> "idle", subreddit |-> 0, images |-> << >>, kept |-> << >>,
              img |-> 0, posted_images |-> << >>]

\* The run r takes the local state l.
SetRun(r, l) ==
    /\ pc' = [pc EXCEPT ![r] = l.pc]
    /\ subreddit' = [subreddit EXCEPT ![r] = l.subreddit]
    /\ images' = [images EXCEPT ![r] = l.images]
    /\ kept' = [kept EXCEPT ![r] = l.kept]
    /\ img' = [img EXCEPT ![r] = l.img]
    /\ posted_images' = [posted_images EXCEPT ![r] = l.posted_images]

EndedRun ==
    [pc |-> "idle", subreddit |-> 0, images |-> << >>, kept |-> << >>, img |-> 0,
     posted_images |-> << >>]

\* The process dies: every run in flight is gone with its memory.
AllRunsLost ==
    /\ pc' = Idle
    /\ subreddit' = [r \in Runs |-> 0]
    /\ images' = [r \in Runs |-> << >>]
    /\ kept' = [r \in Runs |-> << >>]
    /\ img' = [r \in Runs |-> 0]
    /\ posted_images' = [r \in Runs |-> << >>]

\* The record of failed publishes: the run r has failed on urls, and a run that has
\* ended has none.
NoteFailed(r, urls) ==
    failed_in_run' = [q \in Runs |->
                        IF pc'[q] = "idle" THEN {}
                        ELSE IF q = r THEN failed_in_run[q] \cup urls
                        ELSE failed_in_run[q]]

\* Midnight or any other passage of time.
Tick ==
    /\ now < MaxNow
    /\ now' = now + 1
    /\ ev' = [op |-> "tick"]
    /\ UNCHANGED <<reddit, file, pc, subreddit, images, kept, img, posted_images,
                   sent, failed_in_run, overlap>>

\* The dispatcher hands out the lowest free run.
FreeRun(r) == pc[r] = "idle" /\ \A q \in Runs : q < r => pc[q] /= "idle"

NoRunInFlight == \A r \in Runs : pc[r] = "idle"

\* post_reddit_images up to its first fetch: posted_images = clear_old_images().
\* An exception out of load_posted_images ends the run.  ios: what the read may meet;
\* outcomes: what the save may meet.
StartRunIO(r, ios, outcomes) ==
    /\ FreeRun(r)
    /\ overlap' = (overlap \/ ~NoRunInFlight)
    /\ \E io \in ios, outcome \in outcomes :
         LET c == clear_old_images(file, now, io, outcome)
         IN  /\ file' = c.file
             /\ ev' = [op |-> "clear_old_images", run |-> r, read |-> file.kind,
                       io |-> io, stored |-> c.stored,
                       raised |-> c.raised, returned |-> c.returned,
                       save |-> c.save, saving |-> << >>]
             /\ IF c.save = "crash" THEN AllRunsLost
                ELSE IF c.raised THEN SetRun(r, EndedRun)
                ELSE SetRun(r, [pc |-> "fetch", subreddit |-> 1, images |-> << >>,
                                kept |-> << >>, img |-> 0,
                                posted_images |-> c.returned])
    /\ NoteFailed(r, {})
    /\ UNCHANGED <<now, reddit, sent>>

StartRun(r, outcomes) == StartRunIO(r, IOResults, outcomes)

\* A faulty fetch step: what the listing raises is not caught and ends the run.
run_after_fetch_raises(rd, source, sub, posted, t) ==
    IF rd /= "None" /\ source.error
    THEN [pc |-> "idle", subreddit |-> 0, images |-> << >>, kept |-> << >>,
          img |-> 0, posted_images |-> << >>]
    ELSE LoopState(sub,
                   fetch_images(rd, source, upvote_threshold, default_limit, t),
                   kept_posts(rd, source, upvote_threshold, default_limit, t),
                   1, posted)

\* Where a run stands after images = fetch_images(subreddit, upvote_threshold) for
\* subreddit number sub: fetch_images swallows what the listing raises, and the loop
\* over images goes up to the first candidate that is not in posted.
run_after_fetch(rd, source, sub, posted, t) ==
    LoopState(sub,
              fetch_images(rd, source, upvote_threshold, default_limit, t),
              kept_posts(rd, source, upvote_threshold, default_limit, t),
              1, posted)

\* One iteration of `for subreddit in subreddits` up to its first GET.
FetchImages(r) ==
    /\ pc[r] = "fetch"
    /\ \E source \in RunSources(now) :
         /\ SetRun(r, run_after_fetch(reddit, source, subreddit[r], posted_images[r], now))
         /\ ev' = [op |-> "fetch_images", run |-> r, subreddit |-> subreddit[r],
                   name |-> Subreddits[subreddit[r]],
                   queried |-> queries_source(reddit),
                   failed |-> (queries_source(reddit) /\ source.error),
                   result |-> fetch_images(reddit, source, upvote_threshold,
                                           default_limit, now)]
    /\ NoteFailed(r, {})
    /\ UNCHANGED <<now, reddit, file, sent, overlap>>

\* A faulty publisher: an exception of the GET or of the send is not caught, leaves
\* send_image_to_telegram and ends the run.
run_after_publish_raises(sub, imgs, kpt, i, posted, raised) ==
    IF raised
    THEN [pc |-> "idle", subreddit |-> 0, images |-> << >>, kept |-> << >>,
          img |-> 0, posted_images |-> << >>]
    ELSE LoopState(sub, imgs, kpt, i + 1, posted)

\* Where a run stands when send_image_to_telegram returns for candidate i: raised
\* says that the GET or the send raised, which the except clauses log and swallow;
\* either way the loop goes on with the candidate after i.
run_after_publish(sub, imgs, kpt, i, posted, raised) ==
    LoopState(sub, imgs, kpt, i + 1, posted)

\* ---------------------------------------------------------------- publisher
\* What requests.get(image_url, timeout=10) does: raises a RequestException, or
\* returns a response with a status code.
StatusCodes == {HTTP_OK, 404}

Responses ==
    { [raised |-> FALSE, status_code |-> c] : c \in StatusCodes }
    \cup { [raised |-> TRUE, status_code |-> 0] }

\* A faulty branch: any response that did not raise goes on to the send.
goes_to_send_any_status(response) == ~response.raised

\* The branch send_image_to_telegram takes on the response: TRUE when it goes on to
\* await bot.send_photo.
goes_to_send(response) == ~response.raised /\ response.status_code = HTTP_OK

\* A faulty publisher: the list is saved before the URL is appended to it.
after_send_saves_first(posted, url, ok, f, t, outcome) ==
    IF ok
    THEN [posted_images |-> Append(posted, url),
          file |-> save_posted_images(f, posted, t, outcome),
          save |-> outcome,
          saving |-> posted]
    ELSE [posted_images |-> posted, file |-> f, save |-> "none", saving |-> << >>]

\* A faulty publisher: the URL is appended and saved whether or not the send returned.
after_send_speculative(posted, url, ok, f, t, outcome) ==
    [posted_images |-> Append(posted, url),
     file |-> save_posted_images(f, Append(posted, url), t, outcome),
     save |-> outcome,
     saving |-> Append(posted, url)]

\* A faulty publisher: a URL whose save failed is taken out of the list again.
after_send_forgets_unsaved(posted, url, ok, f, t, outcome) ==
    IF ok
    THEN [posted_images |-> IF outcome = "ok" THEN Append(posted, url) ELSE posted,
          file |-> save_posted_images(f, Append(posted, url), t, outcome),
          save |-> outcome,
          saving |-> Append(posted, url)]
    ELSE [posted_images |-> posted, file |-> f, save |-> "none", saving |-> << >>]

\* send_image_to_telegram from the return of the awaited bot.send_photo on: ok says
\* that it returned, not raised.  The list and the file afterwards, and what the
\* save did ("none": not called).
after_send(posted, url, ok, f, t, outcome) ==
    IF ok
    THEN [posted_images |-> Append(posted, url),
          file |-> save_posted_images(f, Append(posted, url), t, outcome),
          save |-> outcome,
          saving |-> Append(posted, url)]
    ELSE [posted_images |-> posted, file |-> f, save |-> "none", saving |-> << >>]

\* send_image_to_telegram up to the await: the GET on the candidate URL.  responses:
\* what the GET may meet.
GetImageOf(r, responses) ==
    /\ pc[r] = "get"
    /\ \E response \in responses :
         /\ ev' = [op |-> "get", run |-> r, url |-> images[r][img[r]],
                   response |-> response,
                   retry |-> images[r][img[r]] \in failed_in_run[r]]
         /\ IF goes_to_send(response)
            THEN /\ pc' = [pc EXCEPT ![r] = "send"]
                 /\ UNCHANGED <<subreddit, images, kept, img, posted_images>>
            ELSE SetRun(r, run_after_publish(subreddit[r], images[r], kept[r], img[r],
                                             posted_images[r], response.raised))
         /\ NoteFailed(r, IF goes_to_send(response) THEN {} ELSE {images[r][img[r]]})
    /\ UNCHANGED <<now, reddit, file, sent, overlap>>

GetImage(r) == GetImageOf(r, Responses)

\* The awaited bot.send_photo completes; on success the URL is appended and saved;
\* then the loops go on to the next candidate.  oks: whether the send may return,
\* raise, or either; outcomes: what the save may meet.
SendDoneOf(r, oks, outcomes) ==
    /\ pc[r] = "send"
    /\ \E ok \in oks, outcome \in outcomes :
         LET url == images[r][img[r]]
             a == after_send(posted_images[r], url, ok, file, now, outcome)
             delivery == <<url, DateStr(now)>>
         IN  /\ file' = a.file
             /\ sent' = IF ok THEN sent \cup {delivery} ELSE sent
             /\ ev' = [op |-> "send_photo", run |-> r, url |-> url,
                       created_utc |-> kept[r][img[r]].created_utc, ok |-> ok,
                       repeat |-> ok /\ delivery \in sent,
                       save |-> a.save, saving |-> a.saving]
             /\ IF a.save = "crash" THEN AllRunsLost
                ELSE SetRun(r, run_after_publish(subreddit[r], images[r], kept[r],
                                                 img[r], a.posted_images, ~ok))
             /\ NoteFailed(r, IF ok THEN {} ELSE {url})
    /\ UNCHANGED <<now, reddit, overlap>>

SendDone(r, outcomes) == SendDoneOf(r, BOOLEAN, outcomes)

\* Runs triggered one after the other: the dispatcher starts a run only when none
\* is in flight.
Start(r) == NoRunInFlight /\ StartRun(r, SaveOutcomes)

Publish(r) == SendDone(r, SaveOutcomes)

Next ==
    \/ Tick
    \/ \E r \in Runs : Start(r)
    \/ \E r \in Runs : FetchImages(r)
    \/ \E r \in Runs : GetImage(r)
    \/ \E r \in Runs : Publish(r)

Spec == Init /\ [][Next]_vars

\* The same, with a process that may die in the middle of a save and be started again.
StartOrCrash(r) == NoRunInFlight /\ StartRun(r, CrashOutcomes)

PublishOrCrash(r) == SendDone(r, CrashOutcomes)

NextCrash ==
    \/ Tick
    \/ \E r \in Runs : StartOrCrash(r)
    \/ \E r \in Runs : FetchImages(r)
    \/ \E r \in Runs : GetImage(r)
    \/ \E r \in Runs : PublishOrCrash(r)

SpecCrash == Init /\ [][NextCrash]_vars

\* Two triggers may be handled at the same time: the dispatcher starts a second run
\* while the first is suspended in an await.  This is one day on which no file
\* operation, no GET and no send fails.
TwoRuns == {1, 2}

InitRace ==
    /\ now = 0
    /\ reddit = "client"
    /\ file = NoFile
    /\ pc = Idle
    /\ subreddit = [r \in Runs |-> 0]
    /\ images = [r \in Runs |-> << >>]
    /\ kept = [r \in Runs |-> << >>]
    /\ img = [r \in Runs |-> 0]
    /\ posted_images = [r \in Runs |-> << >>]
    /\ sent = {}
    /\ failed_in_run = [r \in Runs |-> {}]
    /\ overlap = FALSE
    /\ ev = [op |-> "init"]

StartAnyTime(r) == r \in TwoRuns /\ StartRunIO(r, {"ok"}, {"ok"})

GetRetrievable(r) == GetImageOf(r, { x \in Responses : goes_to_send(x) })

PublishSaved(r) == SendDoneOf(r, {TRUE}, {"ok"})

NextRace ==
    \/ \E r \in Runs : StartAnyTime(r)
    \/ \E r \in Runs : FetchImages(r)
    \/ \E r \in Runs : GetRetrievable(r)
    \/ \E r \in Runs : PublishSaved(r)

SpecRace == InitRace /\ [][NextRace]_vars

\* ------------------------------------------------- fetch_images on its own
\* fetch_images called once, at any time, with any ranking, threshold and limit of
\* the bounded sets below.
ProbeLen == MaxListing + 1

Thresholds == {upvote_threshold - 1, upvote_threshold}

\* Per URL: a submission that passes the score and age conditions for the larger
\* threshold, one whose score is one short of it, one that is one instant too old.
ProbePosts(t) ==
    { Post(u, upvote_threshold, DayStart(t)) : u \in ProbeURLs }
    \cup { Post(u, upvote_threshold - 1, t) : u \in ProbeURLs }
    \cup { Post(u, upvote_threshold, cr) : u \in ProbeURLs, cr \in {DayStart(t) - 1} \cap (0..t) }

ProbeSources(t) ==
    { [error |-> FALSE, hot |-> h] : h \in SeqsUpTo(ProbePosts(t), ProbeLen) }
    \cup { [error |-> TRUE, hot |-> << >>] }

InitFetch ==
    /\ now \in 0..MaxNow
    /\ reddit \in {"client", "None"}
    /\ file = NoFile
    /\ pc = Idle
    /\ subreddit = [r \in Runs |-> 0]
    /\ images = [r \in Runs |-> << >>]
    /\ kept = [r \in Runs |-> << >>]
    /\ img = [r \in Runs |-> 0]
    /\ posted_images = [r \in Runs |-> << >>]
    /\ sent = {}
    /\ failed_in_run = [r \in Runs |-> {}]
    /\ overlap = FALSE
    /\ ev = [op |-> "init"]

FetchCall ==
    /\ ev.op = "init"
    /\ \E source \in ProbeSources(now), threshold \in Thresholds, limit \in 0..MaxLimit :
         ev' = [op |-> "call_fetch_images", source |-> source,
                threshold |-> threshold, limit |-> limit,
                result |-> fetch_images(reddit, source, threshold, limit, now)]
    /\ UNCHANGED <<now, reddit, file, pc, subreddit, images, kept, img,
                   posted_images, sent, failed_in_run, overlap>>

NextFetch == FetchCall

SpecFetch == InitFetch /\ [][NextFetch]_vars

\* ------------------------------------------------------------------- claims
IsSend == ev.op = "send_photo" /\ ev.ok

IsClear == ev.op = "clear_old_images"

\* The URLs some send_photo has returned for.
Delivered == { d[1] : d \in sent }

\* C1: on one UTC day no URL is sent to the channel twice, over any sequence of
\* serial runs, failed loads and failed saves included: no send_photo returns for a
\* URL it has already returned for on the same date.
C1_SentOncePerDay == ~(ev.op = "send_photo" /\ ev.repeat)

\* C2 (as claimed): clear_old_images with the stored date equal to the current date
\* returns the stored images and does not write the store; with any other stored
\* date it returns the empty list and the store afterwards holds the empty images
\* array with the current date.
C2_ClearAlwaysPersists ==
    [][ (ev'.op = "clear_old_images" /\ ~ev'.raised) =>
          IF ev'.stored.date = DateStr(now)
          THEN ev'.returned = ev'.stored.images /\ ev'.save = "none" /\ file' = file
          ELSE ev'.returned = << >> /\ file' = ObjFile(<< >>, DateStr(now)) ]_vars

\* C2 (amended): as above, except that with another stored date the store holds the
\* empty images array with the current date when the save succeeds; a save whose
\* open fails leaves the file as it was, and one whose write fails or is cut off by a
\* crash leaves a file that is not valid JSON.
C2_ClearOldImages ==
    [][ (ev'.op = "clear_old_images" /\ ~ev'.raised) =>
          IF ev'.stored.date = DateStr(now)
          THEN ev'.returned = ev'.stored.images /\ ev'.save = "none" /\ file' = file
          ELSE /\ ev'.returned = << >>
               /\ ev'.save /= "none"
               /\ ev'.save = "ok" => file' = ObjFile(<< >>, DateStr(now))
               /\ ev'.save = "open_error" => file' = file
               /\ ev'.save \in {"write_error", "crash"} => file'.kind = "torn" ]_vars

\* The scenario of the reset: a store with images and an earlier date is read on a
\* later day and rewritten empty with the new date.
C2_Witness ==
    /\ IsClear /\ ~ev.raised
    /\ ev.stored.images /= << >>
    /\ ev.stored.date /= EmptyStr /\ ev.stored.date /= DateStr(now)
    /\ ev.save = "ok"
    /\ file = ObjFile(<< >>, DateStr(now))

\* C3 (as claimed): right after a send_photo that returned, the store holds the URL
\* in its images array and the current date.
C3_SentIsPersisted ==
    IsSend =>
        /\ file.kind = "object"
        /\ ev.url \in Range(file.images)
        /\ file.date = DateStr(now)

\* C3 (amended): right after a send_photo that returned and a save that succeeded,
\* the store holds the URL in its images array and the current date.
C3_SentIsPersistedIfSaved ==
    (IsSend /\ ev.save = "ok") =>
        /\ file.kind = "object"
        /\ ev.url \in Range(file.images)
        /\ file.date = DateStr(now)

\* A send on the second day, saved after an earlier URL of the same run.
C3_Witness ==
    /\ IsSend /\ ev.save = "ok"
    /\ Len(file.images) >= 2
    /\ file.images[Len(file.images)] = ev.url
    /\ file.date = DateStr(DayLen)

\* C4: no speculative marking: every URL in a run's in-memory list or in the stored
\* images array is one a send_photo has returned for.
C4_NoSpeculativeMarking ==
    /\ \A r \in Runs : Range(posted_images[r]) \subseteq Delivered
    /\ Range(file.images) \subseteq Delivered

\* A send_photo has just raised, while the list and the store hold another URL.
C4_Witness ==
    /\ ev.op = "send_photo" /\ ~ev.ok
    /\ pc[ev.run] /= "idle"
    /\ posted_images[ev.run] /= << >>
    /\ file.images /= << >>
    /\ ev.url \notin Delivered

\* C5: a GET that returns another status than 200 is followed by no send_photo, and
\* changes neither the in-memory list of the run nor the store.
C5_NoSendOnBadStatus ==
    [][ (ev'.op = "get" /\ ~ev'.response.raised
            /\ ev'.response.status_code /= HTTP_OK) =>
          /\ pc'[ev'.run] /= "send"
          /\ sent' = sent
          /\ file' = file
          /\ pc'[ev'.run] /= "idle" => posted_images'[ev'.run] = posted_images[ev'.run]
      ]_vars

C5_Witness ==
    /\ ev.op = "get" /\ ~ev.response.raised /\ ev.response.status_code /= HTTP_OK
    /\ pc[ev.run] = "fetch"
    /\ posted_images[ev.run] /= << >>
    /\ ev.url \notin Range(posted_images[ev.run])

\* C6: a candidate created before 00:00:00 UTC of the current day is never published:
\* at the moment a send_photo returns, the submission is of the current day.
C6_NeverPublishesOldPost == IsSend => ev.created_utc >= DayStart(now)

\* The last characters of u spell .jpg, .png or .jpeg.
HasImageSuffix(u) ==
    LET c == Chars(u)
        n == Len(c)
    IN  \/ n >= 4 /\ <<c[n - 3], c[n - 2], c[n - 1], c[n]>> = <<".", "j", "p", "g">>
        \/ n >= 4 /\ <<c[n - 3], c[n - 2], c[n - 1], c[n]>> = <<".", "p", "n", "g">>
        \/ n >= 5 /\ <<c[n - 4], c[n - 3], c[n - 2], c[n - 1], c[n]>>
                        = <<".", "j", "p", "e", "g">>

\* C7: fetch_images returns exactly the URLs, in the order of the ranking, of those
\* among its first `limit` items that are of the current day, have a score of at
\* least the threshold and a URL ending in .jpg, .png or .jpeg; nothing else is ever
\* returned.
C7_FetchFilter ==
    ev.op = "call_fetch_images" =>
        LET hot == ev.source.hot
            first == 1..(IF ev.limit < Len(hot) THEN ev.limit ELSE Len(hot))
            wanted == { i \in first :
                          /\ hot[i].created_utc \div DayLen >= now \div DayLen
                          /\ ~(hot[i].score < ev.threshold)
                          /\ HasImageSuffix(hot[i].url) }
            Rank(i) == Cardinality({ j \in wanted : j <= i })
        IN  /\ \A k \in 1..Len(ev.result) :
                  \E i \in wanted : Rank(i) = k /\ ev.result[k] = hot[i].url
            /\ (reddit = "client" /\ ~ev.source.error) =>
                  Len(ev.result) = Cardinality(wanted)

\* A call over two items that drops the first, a .gif, and returns the second, a .jpeg.
C7_Witness ==
    /\ ev.op = "call_fetch_images"
    /\ Len(ev.source.hot) = ProbeLen
    /\ ev.limit = 2
    /\ Len(ev.result) = 1
    /\ ev.result[1] = ev.source.hot[2].url
    /\ ev.source.hot[1].url = URL_D_GIF
    /\ ev.source.hot[2].url = URL_C_JPEG

\* C8: load_posted_images never raises, whatever the file holds, and returns the
\* empty list and the empty date when the file is missing, unreadable or not an
\* object it can parse.
C8_LoadNeverRaises ==
    IsClear =>
        /\ ~ev.raised
        /\ (ev.read /= "object" \/ ev.io = "ioerror") =>
              (ev.stored.images = << >> /\ ev.stored.date = EmptyStr)

\* C9: a crash during a save over a valid store file leaves the previous content of
\* the file or the complete new content, never an empty or partly written file.
C9_CrashSafeSave ==
    [][ (ev'.op \in {"clear_old_images", "send_photo"} /\ ev'.save = "crash"
            /\ file.kind = "object") =>
          (file' = file \/ file' = ObjFile(ev'.saving, DateStr(now))) ]_vars

\* C10: a fetch that fails gives the empty list for that subreddit only: the run goes
\* on to the next subreddit in order (or ends after the last one) with its list as it
\* was, and every fetch, after a failed one too, leads to the GET of its first URL
\* that is not in the list.
C10_FetchFailureIsLocal ==
    [][ ev'.op = "fetch_images" =>
          LET r == ev'.run
              k == ev'.subreddit
              fresh == { i \in 1..Len(ev'.result) :
                           ev'.result[i] \notin Range(posted_images[r]) }
          IN  /\ ev'.failed => ev'.result = << >>
              /\ k = subreddit[r]
              /\ (ev.op = "fetch_images" /\ ev.failed /\ ev.run = r) =>
                    k = ev.subreddit + 1
              /\ IF fresh /= {}
                 THEN /\ pc'[r] = "get"
                      /\ subreddit'[r] = k
                      /\ images'[r] = ev'.result
                      /\ \A i \in fresh : img'[r] <= i
                      /\ img'[r] \in fresh
                      /\ posted_images'[r] = posted_images[r]
                 ELSE IF k < Len(Subreddits)
                 THEN /\ pc'[r] = "fetch"
                      /\ subreddit'[r] = k + 1
                      /\ posted_images'[r] = posted_images[r]
                 ELSE pc'[r] = "idle" ]_vars

\* The first subreddit's fetch has failed and the run, with a URL in its list, is at
\* the fetch of the second.
C10_Witness ==
    /\ ev.op = "fetch_images" /\ ev.failed /\ ev.subreddit = 1
    /\ pc[ev.run] = "fetch" /\ subreddit[ev.run] = 2
    /\ posted_images[ev.run] /= << >>

\* The place of the loops of a run once candidate i of imgs is done with the list
\* posted: the next index whose URL is not in posted, else the next subreddit, else
\* the end of the run.
GoesOn(r, sub, imgs, i, posted) ==
    LET later == { j \in (i + 1)..Len(imgs) : imgs[j] \notin Range(posted) }
    IN  IF later /= {}
        THEN /\ pc'[r] = "get"
             /\ subreddit'[r] = sub
             /\ images'[r] = imgs
             /\ img'[r] \in later
             /\ \A j \in later : img'[r] <= j
             /\ posted_images'[r] = posted
        ELSE IF sub < Len(Subreddits)
        THEN /\ pc'[r] = "fetch"
             /\ subreddit'[r] = sub + 1
             /\ posted_images'[r] = posted
        ELSE pc'[r] = "idle"

\* C11: an exception of the GET or of the send does not leave send_image_to_telegram:
\* nothing is sent, the list of the run and the store stay as they were, and the run
\* goes on with the next candidate (the next subreddit, or its end, when there is
\* none).
C11_PublishErrorsAreSwallowed ==
    [][ ((ev'.op = "get" /\ ev'.response.raised)
            \/ (ev'.op = "send_photo" /\ ~ev'.ok)) =>
          LET r == ev'.run
          IN  /\ file' = file
              /\ sent' = sent
              /\ pc'[r] /= "send"
              /\ GoesOn(r, subreddit[r], images[r], img[r], posted_images[r]) ]_vars

\* A GET has raised in the second subreddit of a run that has a URL in its list, and
\* the run is at the fetch of the third.
C11_Witness ==
    /\ ev.op = "get" /\ ev.response.raised
    /\ pc[ev.run] = "fetch" /\ subreddit[ev.run] = 3
    /\ posted_images[ev.run] /= << >>
    /\ ev.url \notin Range(posted_images[ev.run])

\* C12: once the GET or the send of a URL has failed in a run, that run makes no
\* further GET for the URL, wherever in its fetch results the URL comes again.
C12_NoRetryInRun == ~(ev.op = "get" /\ ev.retry)

\* C13: send_image_to_telegram is only ever at work on a URL that is not in the list
\* of its run, and that list holds the URL of a send as soon as the send has
\* returned, before the next candidate is looked at.
C13_FiltersBeforePublishing ==
    /\ \A r \in Runs :
         pc[r] \in {"get", "send"} => images[r][img[r]] \notin Range(posted_images[r])
    /\ (IsSend /\ pc[ev.run] /= "idle") =>
         /\ posted_images[ev.run] = ev.saving
         /\ ev.url \in Range(posted_images[ev.run])

\* The second subreddit has returned a URL that the run has sent itself (no store
\* has ever been written), and the run has passed it over.
C13_Witness ==
    /\ ev.op = "fetch_images" /\ ev.subreddit = 2
    /\ ev.result /= << >>
    /\ Range(ev.result) \subseteq Range(posted_images[ev.run])
    /\ file.kind = "missing"
    /\ pc[ev.run] = "fetch" /\ subreddit[ev.run] = 3

IsPrefix(s, t) == Len(s) <= Len(t) /\ \A i \in 1..Len(s) : t[i] = s[i]

\* C14: a save that fails after a send is not fatal: the URL is in the list of the
\* run all the same and the run goes on with the next candidate; the list of a run
\* never loses a URL and no GET is made for a URL in it, so the URL is not sent
\* again in the run; and every later save that succeeds writes the whole list, that
\* URL included.
C14_SaveFailureIsNotFatal ==
    [][ /\ (ev'.op = "send_photo" /\ ev'.ok /\ ev'.save \in {"open_error", "write_error"}) =>
             /\ sent' = sent \cup {<<ev'.url, DateStr(now)>>}
             /\ GoesOn(ev'.run, subreddit[ev'.run], images[ev'.run], img[ev'.run],
                       Append(posted_images[ev'.run], ev'.url))
        /\ \A r \in Runs :
             (pc[r] /= "idle" /\ pc'[r] /= "idle") =>
                 IsPrefix(posted_images[r], posted_images'[r])
        /\ ev'.op = "get" => ev'.url \notin Range(posted_images[ev'.run])
        /\ (ev'.op = "send_photo" /\ ev'.save = "ok") =>
             /\ file'.kind = "object"
             /\ Range(posted_images[ev'.run]) \cup {ev'.url} \subseteq Range(file'.images)
      ]_vars

\* A send has returned, its save could not open the file, and the run goes on to
\* the next subreddit with the URL in its list and in no store.
C14_Witness ==
    /\ IsSend /\ ev.save = "open_error"
    /\ file.kind = "missing"
    /\ pc[ev.run] = "fetch"
    /\ ev.url \in Range(posted_images[ev.run])

\* C15: with the client missing (reddit is None) every fetch_images returns the
\* empty list without asking the source, so no run ever gets to a GET or a send,
\* and no URL comes into a list, into the store or into the channel.
C15_DegradedMode ==
    reddit = "None" =>
        /\ ev.op = "fetch_images" => (~ev.queried /\ ~ev.failed /\ ev.result = << >>)
        /\ ev.op \notin {"get", "send_photo"}
        /\ \A r \in Runs : pc[r] \in {"idle", "fetch"} /\ posted_images[r] = << >>
        /\ file.kind = "object" => file.images = << >>
        /\ sent = {}

\* Without a client a run has gone through its three fetches and has ended.
C15_Witness ==
    /\ reddit = "None"
    /\ ev.op = "fetch_images" /\ ev.subreddit = Len(Subreddits)
    /\ pc[ev.run] = "idle"

\* C16: nothing keeps a second run from starting while a first is suspended in an
\* await, each with its own list loaded from the same store.  On a day on which no
\* file operation, GET or send fails, a URL is sent a second time only once two
\* runs have been in flight together, and then it can be (C16_Witness).
C16_RepeatOnlyAfterOverlap == (ev.op = "send_photo" /\ ev.repeat) => overlap

\* A run has sent a URL that another run, still in flight, has sent the same day
\* and holds in its own list.
C16_Witness ==
    /\ ev.op = "send_photo" /\ ev.ok /\ ev.repeat
    /\ <<ev.url, DateStr(now)>> \in sent
    /\ \E q \in Runs \ {ev.run} :
         pc[q] /= "idle" /\ ev.url \in Range(posted_images[q])

\* After the step to the primed state, nothing of the current list of run r is left
\* to handle: every URL behind the candidate just handled is in the list of the run.
NothingLeft(r) ==
    LET fetched == ev'.op = "fetch_images"
        list == IF fetched THEN ev'.result ELSE images[r]
        i == IF fetched THEN 0 ELSE img[r]
        done == Range(posted_images[r])
                  \cup (IF ev'.op = "send_photo" /\ ev'.ok THEN {ev'.url} ELSE {})
    IN  \A j \in (i + 1)..Len(list) : list[j] \in done

\* C17: a run calls clear_old_images once, as its first step, and only a send of
\* its own writes the store after that; it fetches EarthPorn, spaceporn and Art in
\* this order, going from one subreddit to the next, or to its end after the third,
\* only when nothing of the current list is left to handle.
C17_OneClearThenFixedOrder ==
    [][ /\ ev'.op = "clear_old_images" =>
             /\ NoRunInFlight
             /\ pc'[ev'.run] = "fetch" => subreddit'[ev'.run] = 1
        /\ file' /= file =>
             (ev'.op = "clear_old_images" \/ (ev'.op = "send_photo" /\ ev'.ok))
        /\ ev'.op = "fetch_images" =>
             /\ pc[ev'.run] = "fetch" /\ ev'.subreddit = subreddit[ev'.run]
             /\ ev'.name = <<"EarthPorn", "spaceporn", "Art">>[ev'.subreddit]
        /\ \A r \in Runs :
             /\ (pc[r] = "idle" /\ pc'[r] /= "idle") =>
                    (ev'.op = "clear_old_images" /\ ev'.run = r /\ pc'[r] = "fetch")
             /\ (pc[r] /= "idle" /\ subreddit'[r] /= subreddit[r]) =>
                    /\ NothingLeft(r)
                    /\ IF subreddit[r] < 3
                       THEN pc'[r] = "fetch" /\ subreddit'[r] = subreddit[r] + 1
                       ELSE pc'[r] = "idle"
             /\ (pc[r] /= "idle" /\ pc'[r] = "idle") => subreddit[r] = 3
      ]_vars

\* A run with a URL in its list has fetched Art, the third subreddit, and is at the
\* GET of a candidate from it.
C17_Witness ==
    /\ ev.op = "fetch_images" /\ ev.name = "Art" /\ ev.subreddit = 3
    /\ posted_images[ev.run] /= << >>
    /\ pc[ev.run] = "get"

\* C18: every URL in the images array of the store was sent on the date that the
\* store records, also when a run that began before midnight saves after it.
C18_StoreIsDayScoped ==
    file.kind = "object" => \A u \in Range(file.images) : <<u, file.date>> \in sent

\* C19: a store that carries the date of today keeps every URL it holds through
\* every step taken that day, and clear_old_images leaves such a store alone even
\* when its load fails.
C19_SameDayMonotonic ==
    [][ (file.kind = "object" /\ file.date = DateStr(now) /\ file.images /= << >>
            /\ now' = now) =>
          /\ file'.kind = "object"
          /\ Range(file.images) \subseteq Range(file'.images)
          /\ ev'.op = "clear_old_images" => file' = file ]_vars

NoDuplicates(s) == \A i, j \in 1..Len(s) : i /= j => s[i] /= s[j]

\* C20: no URL is twice in the images array of the store, in the list of a run, or
\* in a list handed to a save.
C20_ListsAreSets ==
    /\ NoDuplicates(file.images)
    /\ \A r \in Runs : NoDuplicates(posted_images[r])
    /\ ev.op \in {"clear_old_images", "send_photo"} => NoDuplicates(ev.saving)

\* The store holds two URLs, a later run has loaded them, and its first subreddit
\* has returned one of them again, which the run has passed over.
C20_Witness ==
    /\ ev.op = "fetch_images" /\ ev.subreddit = 1
    /\ ev.result /= << >>
    /\ pc[ev.run] = "fetch"
    /\ Len(posted_images[ev.run]) = 2
    /\ Range(ev.result) \subseteq Range(posted_images[ev.run])
    /\ file.kind = "object" /\ file.images = posted_images[ev.run]

====
